---- MODULE Spec2Model ----
(***************************************************************************)
(* A model of the tabular Simplex solver of reuelrds/SimplexAlgorithm:     *)
(* parsing of the objective and the constraints (utils.parse_equation,     *)
(* Equation, Constraint), assembly of the tableau                          *)
(* (LPP.generate_simplex_tableau) and the pivot loop (LPP.solve).          *)
(*                                                                         *)
(* Numbers of the tableau are float64 in the source; the model keeps them  *)
(* as exact rationals <<numerator, denominator>> in lowest terms.          *)
(* Python lists (X, basic_variables, c, A) are 1-based sequences here, so  *)
(* the source's X[pivot_col_idx - 1] reads X[pivot_col_idx]; the tableau   *)
(* keeps the source's 0-based row and column indices.                      *)
(***************************************************************************)
EXTENDS Integers, Sequences, FiniteSets, TLC

VARIABLES
    input_file,                 \* the LPPs utils.read_lp yields, in order
    lp_idx,                     \* main.py: the number of the LPP in work
    output,                     \* the reports utils.display_result has printed
    problem,                    \* the text of the LPP handed to LPP(...)
    pc,                         \* position in main.py / LPP.solve
    X,                          \* LPP.X, shared with every Constraint
    c,                          \* LPP.c
    basic_variables,            \* LPP.basic_variables
    constraints,                \* the equations (A, b) of LPP.constraints
    simplex_tableau,            \* LPP.simplex_tableau
    solution,                   \* LPP.solution
    alternative_solution,       \* LPP.alternative_solution
    z,                          \* LPP.z
    alternative_optima_exist,   \* flag
    degenerate_solution,        \* flag
    unbounded_feasible_region,  \* flag
    is_potentially_degenerate,  \* local flag of solve
    idx,                        \* loop counter of solve
    non_basic_variables,        \* local of solve
    pivot_col_idx,              \* local of solve
    pivot_row_idx,              \* local of solve
    zero_raised                 \* history: did read-back k raise ZeroBasicVariableError

vars == <<input_file, lp_idx, output, problem, pc, X, c, basic_variables, constraints, simplex_tableau,
          solution, alternative_solution, z, alternative_optima_exist,
          degenerate_solution, unbounded_feasible_region,
          is_potentially_degenerate, idx, non_basic_variables,
          pivot_col_idx, pivot_row_idx, zero_raised>>

----------------------------------------------------------------------------
(* Bounds of the explored inputs *)

\* largest absolute value of a coefficient in a generated text
MaxCoef == 2
\* largest right-hand side of a generated constraint
MaxRhs == 2
\* cap on the iterations of the solve loop (the source has none)
MaxIter == 6
\* number of constraints of the longest generated problem
MaxConstraints == 11

----------------------------------------------------------------------------
(* Exact rational arithmetic standing for the float64 operations *)

Abs(n) == IF n < 0 THEN -n ELSE n

RECURSIVE GCD(_, _)
GCD(a, b) == IF b = 0 THEN a ELSE GCD(b, a % b)

\* n/d in lowest terms with a positive denominator (d # 0)
Norm(n, d) ==
    LET g == GCD(Abs(n), Abs(d))
        s == IF d < 0 THEN -1 ELSE 1
    IN  <<(s * n) \div g, (s * d) \div g>>

Rat(n) == <<n, 1>>
Zero == Rat(0)
One == Rat(1)

\* the operands a and b of an operation are evaluated once, as values
RAdd(p, q) ==
    CHOOSE r \in {Norm(a[1] * b[2] + b[1] * a[2], a[2] * b[2]) :
                     a \in {p}, b \in {q}} : TRUE
RSub(p, q) ==
    CHOOSE r \in {Norm(a[1] * b[2] - b[1] * a[2], a[2] * b[2]) :
                     a \in {p}, b \in {q}} : TRUE
RMul(p, q) ==
    CHOOSE r \in {Norm(a[1] * b[1], a[2] * b[2]) : a \in {p}, b \in {q}} : TRUE
RDiv(p, q) ==
    CHOOSE r \in {Norm(a[1] * b[2], a[2] * b[1]) : a \in {p}, b \in {q}} : TRUE
RLess(p, q) == p[1] * q[2] < q[1] * p[2]
RLeq(p, q) == p[1] * q[2] <= q[1] * p[2]

\* Python's None (dict.fromkeys), numpy's nan and inf
None == <<0, 0>>
NaN == <<0, 0>>
Inf == <<1, 0>>

Range(s) == {s[i] : i \in DOMAIN s}
Zeros(n) == [i \in 1..n |-> 0]

----------------------------------------------------------------------------
(* Texts.  A variable name is <<letters, subscript>> ("x1" is <<"x", 1>>); *)
(* a term of an expression is the pair the pattern of parse_equation       *)
(* matches: an optional sign, optional digits, and a variable name.        *)

Name(letters, n) == <<letters, n>>

\* the pair ([-+]{0,1}\d*)([\w\d]+) matched for one term
Term(sign, hasDigits, digits, var) ==
    [sign |-> sign, hasDigits |-> hasDigits, digits |-> digits, var |-> var]

\* utils.parse_equation, the coefficient of one matched pair
Coefficient(pair) ==
    IF pair.sign = "-" /\ ~pair.hasDigits THEN -1
    ELSE IF ~pair.hasDigits THEN 1
    ELSE IF pair.sign = "-" THEN -pair.digits ELSE pair.digits

\* utils.parse_equation: the coefficients and the variables, in text order
parse_equation(equation_string) ==
    [c |-> [i \in 1..Len(equation_string) |-> Coefficient(equation_string[i])],
     X |-> [i \in 1..Len(equation_string) |-> equation_string[i].var]]

\* dict(zip(X, c))[var]: the last pair of a key wins
DictGet(Xs, cs, var) ==
    LET last == CHOOSE i \in 1..Len(Xs) :
                    /\ Xs[i] = var
                    /\ \A j \in 1..Len(Xs) : Xs[j] = var => j <= i
    IN  cs[last]

\* Equation.parse without the filling in of the missing variables (mutant)
EquationParseTextOrder(lhs, variables) == parse_equation(lhs).c

\* Equation.parse
EquationParse(lhs, variables) ==
    LET p == parse_equation(lhs)
    IN  IF Len(p.X) # Len(variables)
        THEN [i \in 1..Len(variables) |->
                 IF variables[i] \in Range(p.X)
                 THEN DictGet(p.X, p.c, variables[i]) ELSE 0]
        ELSE p.c

\* Equation.__init__ with a sign flip that negates b only (mutant)
EquationInitNoFlipA(lhs, rhs, variables, flip_sign) ==
    [A |-> EquationParse(lhs, variables),
     b |-> IF flip_sign THEN -rhs ELSE rhs]

\* Equation.__init__
EquationInit(lhs, rhs, variables, flip_sign) ==
    LET A == EquationParse(lhs, variables)
    IN  IF flip_sign
        THEN [A |-> [i \in 1..Len(A) |-> A[i] * (-1)], b |-> -rhs]
        ELSE [A |-> A, b |-> rhs]

\* the last character of a variable name, as int(last_variable[-1])
LastDigit(name) == name[2] % 10

\* the slack or surplus variable Constraint.parse creates
SlackVar(variables) == Name("s", LastDigit(variables[Len(variables)]) + 1)

\* Constraint.parse, the left-hand side after "+ s" or "- s" is appended
ConstraintLhs(con, slack_var) ==
    LET lhs1 == IF con.sign_type = "<="
                THEN Append(con.lhs, Term("+", FALSE, 0, slack_var))
                ELSE con.lhs
    IN  IF con.sign_type = ">=" /\ con.rhs < 0
        THEN Append(lhs1, Term("-", FALSE, 0, slack_var))
        ELSE lhs1

\* lhs, sign_type, rhs = re.split(...): the split gives three pieces
SplitUnpacks(con) == con.sign_type \in {">=", "=", "<="}

\* Constraint.parse: the lists after the call and the equation built
ConstraintParse(con, variables, slack_variables) ==
    IF con.sign_type # "=="
    THEN LET slack_var == SlackVar(variables)
             vs == Append(variables, slack_var)
         IN  [variables |-> vs,
              slack_variables |-> Append(slack_variables, slack_var),
              equation |-> EquationInit(ConstraintLhs(con, slack_var), con.rhs, vs,
                                        con.sign_type = ">=" /\ con.rhs < 0)]
    ELSE [variables |-> variables,
          slack_variables |-> slack_variables,
          equation |-> EquationInit(con.lhs, con.rhs, variables, FALSE)]

\* Constraint.pad with np.pad(A, (0, pad_size)): no z column in front (mutant)
ConstraintPadNoZColumn(A, variables) ==
    LET pad_size == Len(variables) - Len(A)
    IN  IF pad_size >= 0 THEN A \o Zeros(pad_size) ELSE A

\* Constraint.pad: one zero in front (the z column), pad_size zeros behind
ConstraintPad(A, variables) ==
    LET pad_size == Len(variables) - Len(A)
    IN  IF pad_size >= 0 THEN <<0>> \o A \o Zeros(pad_size) ELSE A


----------------------------------------------------------------------------
(* The tableau *)

LastCol == Len(X) + 1
Rows == DOMAIN simplex_tableau
ConstraintRows == Rows \ {0}

\* LPP.generate_simplex_tableau
GenerateTableau(cs, cons, variables) ==
    LET m == Len(cons)
        n == Len(variables)
        crow == <<1>> \o [i \in 1..Len(cs) |-> cs[i] * (-1)] \o Zeros(n - Len(cs))
        b == <<0>> \o [i \in 1..m |-> cons[i].b]
        partial == [r \in 0..m |-> IF r = 0 THEN crow ELSE cons[r].A]
    IN  [r \in 0..m |->
            [j \in 0..(n + 1) |->
                IF j = n + 1 THEN Rat(b[r + 1]) ELSE Rat(partial[r][j + 1])]]

\* np.vstack accepts the rows only when they all have the width of the c row
StackShapesAgree(cs, cons, variables) ==
    \A i \in 1..Len(cons) : Len(cons[i].A) = 1 + Len(variables)

----------------------------------------------------------------------------
(* Entering variable: LPP._get_entering_variable *)

\* self.simplex_tableau[0][1:], indexed by its tableau column 1..LastCol
ZRowTail == [j \in 1..LastCol |-> simplex_tableau[0][j]]

\* the extreme of the wrong direction: np.max for maximize (mutant)
ExtremeValueOpposite(problem_type) ==
    LET row == [j \in 1..LastCol |-> simplex_tableau[0][j]]
    IN  IF problem_type = "maximize"
        THEN CHOOSE v \in Range(row) : \A w \in Range(row) : RLeq(w, v)
        ELSE CHOOSE v \in Range(row) : \A w \in Range(row) : RLeq(v, w)

\* np.min / np.max of the z-row without its z column
ExtremeValue(problem_type) ==
    LET row == ZRowTail
    IN  IF problem_type = "maximize"
        THEN CHOOSE v \in Range(row) : \A w \in Range(row) : RLeq(v, w)
        ELSE CHOOSE v \in Range(row) : \A w \in Range(row) : RLeq(w, v)

\* np.argmin(...) + 1 / np.argmax(...) + 1: the first column with the extreme
PivotColIdx(problem_type) ==
    LET row == ZRowTail
        v == ExtremeValue(problem_type)
    IN  CHOOSE j \in DOMAIN row : row[j] = v /\ \A k \in DOMAIN row : row[k] = v => j <= k

\* str.lower() on the problem types of the input grammar
Lower(s) == IF s = "Maximize" THEN "maximize"
            ELSE IF s = "Minimize" THEN "minimize" ELSE s

----------------------------------------------------------------------------
(* Leaving variable: LPP._get_pivot_row *)

\* np.divide(rhs_column, pivot_column, out=ratios, where=pivot_column != 0)
Ratios(col) ==
    [i \in ConstraintRows |->
        IF simplex_tableau[i][col] # Zero
        THEN RDiv(simplex_tableau[i][LastCol], simplex_tableau[i][col])
        ELSE NaN]

\* ratios > 0 (false for nan)
IsPositive(r) == r[2] # 0 /\ r[1] > 0

\* np.where(ratios > 0, ratios, np.inf)
PositiveRatios(col) ==
    LET ratios == Ratios(col)
    IN  [i \in ConstraintRows |-> IF IsPositive(ratios[i]) THEN ratios[i] ELSE Inf]

\* x <= y on the values of PositiveRatios (positive rationals and inf)
RatioLeq(x, y) == IF y = Inf THEN TRUE ELSE IF x = Inf THEN FALSE ELSE RLeq(x, y)

\* .min()
MinRatio(col) ==
    LET w == PositiveRatios(col)
    IN  CHOOSE v \in Range(w) : \A u \in Range(w) : RatioLeq(v, u)

\* the first row with a positive ratio, whatever its size (mutant)
PivotRowIdxFirstPositive(col) ==
    LET w == PositiveRatios(col)
    IN  CHOOSE i \in ConstraintRows : w[i] # Inf /\ \A k \in ConstraintRows : w[k] # Inf => i <= k

\* .argmin() + 1: the first row with the least ratio
PivotRowIdx(col) ==
    LET w == PositiveRatios(col)
        v == MinRatio(col)
    IN  CHOOSE i \in ConstraintRows : w[i] = v /\ \A k \in ConstraintRows : w[k] = v => i <= k

----------------------------------------------------------------------------
(* Pivot: LPP._update_tableau *)

\* the loop over the rows starts at 1 and misses the z-row (mutant)
UpdateTableauSkipZRow(T, row, col, pivot_element) ==
    LET new_pivot_row == [j \in DOMAIN T[row] |-> RDiv(T[row][j], pivot_element)]
    IN  [i \in DOMAIN T |->
            IF i = row THEN new_pivot_row
            ELSE IF i = 0 THEN T[0]
            ELSE [j \in DOMAIN T[i] |->
                     RSub(T[i][j], RMul(T[i][col], new_pivot_row[j]))]]

\* the pivot row is divided, the loop over the other rows is missing (mutant)
UpdateTableauNoElimination(T, row, col, pivot_element) ==
    LET new_pivot_row == [j \in DOMAIN T[row] |-> RDiv(T[row][j], pivot_element)]
    IN  [i \in DOMAIN T |-> IF i = row THEN new_pivot_row ELSE T[i]]

\* LPP._update_tableau
UpdateTableauOf(T, row, col, pivot_element) ==
    LET new_pivot_row == [j \in DOMAIN T[row] |-> RDiv(T[row][j], pivot_element)]
    IN  [i \in DOMAIN T |->
            IF i = row THEN new_pivot_row
            ELSE LET corr_pivot_element == T[i][col]
                 IN  [j \in DOMAIN T[i] |->
                         RSub(T[i][j], RMul(corr_pivot_element, new_pivot_row[j]))]]


----------------------------------------------------------------------------
(* The input problems *)

x1 == Name("x", 1)
x2 == Name("x", 2)

\* the text of a term with coefficient k # 0: "x1", "-x1", "3x1", "+3x1", ...
TermText(k, var, first) ==
    Term(IF k < 0 THEN "-" ELSE IF first THEN "" ELSE "+", Abs(k) # 1, Abs(k), var)

\* the text of k1 v1 + k2 v2; a term with coefficient 0 is not written
Expr(k1, v1, k2, v2) ==
    (IF k1 # 0 THEN <<TermText(k1, v1, TRUE)>> ELSE <<>>)
    \o (IF k2 # 0 THEN <<TermText(k2, v2, k1 = 0)>> ELSE <<>>)

ConstraintText(lhs, sign_type, rhs) ==
    [lhs |-> lhs, sign_type |-> sign_type, rhs |-> rhs]

LP(problem_type, obj_fn, cons) ==
    [problem_type |-> problem_type, obj_fn |-> obj_fn, constraints |-> cons]

\* Maximize z = 5x1+4x2; 6x1+4x2<=24; x1+2x2<=6
Scenario1 ==
    LP("Maximize", Expr(5, x1, 4, x2),
       <<ConstraintText(Expr(6, x1, 4, x2), "<=", 24),
         ConstraintText(Expr(1, x1, 2, x2), "<=", 6)>>)

\* Maximize z = 3x1+2x2; x1<=4; x1+3x2<=6
Scenario2 ==
    LP("Maximize", Expr(3, x1, 2, x2),
       <<ConstraintText(Expr(1, x1, 0, x2), "<=", 4),
         ConstraintText(Expr(1, x1, 3, x2), "<=", 6)>>)

\* Maximize z = x1; x1 - x2 <= 1
Scenario3 ==
    LP("Maximize", Expr(1, x1, 0, x2),
       <<ConstraintText(Expr(1, x1, -1, x2), "<=", 1)>>)

Scenarios == {Scenario1, Scenario2, Scenario3}

Coefs == (-MaxCoef)..MaxCoef
Pairs == {k \in Coefs \X Coefs : k # <<0, 0>>}
NonNegPairs == {k \in Pairs : k[1] >= 0 /\ k[2] >= 0}

\* the left-hand sides: both variables in the order of X, or x2 written first
LhsTexts ==
    {Expr(k[1], x1, k[2], x2) : k \in Pairs}
    \cup {Expr(k[2], x2, k[1], x1) : k \in {q \in Pairs : q[1] # 0 /\ q[2] # 0}}

ConstraintTexts ==
    {ConstraintText(lhs, s, r) :
        lhs \in LhsTexts, s \in {"<=", ">=", "="}, r \in (-1)..MaxRhs}

\* the objectives of every sign pattern: coefficients -1, 0 and 1
Objectives ==
    {Expr(k[1], x1, k[2], x2) : k \in {q \in (-1..1) \X (-1..1) : q # <<0, 0>>}}

\* these objectives with one constraint of any relation, sign and term order
OneConstraintProblems ==
    {LP(t, f, <<k>>) :
        t \in {"Maximize", "Minimize"}, f \in Objectives, k \in ConstraintTexts}

\* the problems the program is written for: maximize a non-negative objective
\* under two "<=" constraints with non-negative coefficients and RHS
EasyConstraintTexts ==
    {ConstraintText(Expr(k[1], x1, k[2], x2), "<=", r) :
        k \in NonNegPairs, r \in 0..MaxRhs}

TwoConstraintProblems ==
    {LP("Maximize", Expr(k[1], x1, k[2], x2), <<k1, k2>>) :
        k \in NonNegPairs, k1 \in EasyConstraintTexts, k2 \in EasyConstraintTexts}

GeneratedProblems == OneConstraintProblems \cup TwoConstraintProblems

\* Maximize z = x1 under MaxConstraints constraints x1 <= 1, ..., x1 <= 1
LongProblem ==
    LP("Maximize", Expr(1, x1, 0, x2),
       [i \in 1..MaxConstraints |-> ConstraintText(Expr(1, x1, 0, x2), "<=", 1)])

Problems == Scenarios \cup GeneratedProblems \cup {LongProblem}

\* Scenario 1 with its first constraint written without a relation operator
MalformedProblem ==
    LP("Maximize", Expr(5, x1, 4, x2),
       <<ConstraintText(Expr(6, x1, 4, x2), "", 24),
         ConstraintText(Expr(1, x1, 2, x2), "<=", 6)>>)

BatchProblems == {Scenario1, Scenario3, MalformedProblem}

\* input files with several LPPs, of which some are malformed
Batches ==
    {<<p, q>> : p \in BatchProblems, q \in BatchProblems}
    \cup {<<p, q, r>> : p \in BatchProblems, q \in BatchProblems, r \in BatchProblems}

InputFiles == {<<p>> : p \in Problems} \cup Batches

----------------------------------------------------------------------------
(* The program: main.py builds the LPP, generates the tableau and solves   *)

\* [variable for variable in self.X if variable not in self.basic_variables]
NonBasic(variables, basic) ==
    SelectSeq(variables, LAMBDA v : v \notin Range(basic))

\* LPP.__init__ up to the parsing of the objective function
Init ==
    /\ input_file \in InputFiles
    /\ lp_idx = 1
    /\ output = <<>>
    /\ problem = input_file[1]
    /\ pc = "parse"
    /\ c = parse_equation(problem.obj_fn).c
    /\ X = parse_equation(problem.obj_fn).X
    /\ basic_variables = <<>>
    /\ constraints = <<>>
    /\ simplex_tableau = <<>>
    /\ solution = <<>>
    /\ alternative_solution = <<>>
    /\ z = None
    /\ alternative_optima_exist = FALSE
    /\ degenerate_solution = FALSE
    /\ unbounded_feasible_region = FALSE
    /\ is_potentially_degenerate = FALSE
    /\ idx = 0
    /\ non_basic_variables = <<>>
    /\ pivot_col_idx = 0
    /\ pivot_row_idx = 0
    /\ zero_raised = <<>>

\* LPP.parse_constraints, one turn of its first loop
ParseConstraint ==
    /\ pc = "parse"
    /\ Len(constraints) < Len(problem.constraints)
    /\ LET con == problem.constraints[Len(constraints) + 1]
           r == ConstraintParse(con, X, basic_variables)
       IN  IF SplitUnpacks(con)
           THEN /\ X' = r.variables
                /\ basic_variables' = r.slack_variables
                /\ constraints' = Append(constraints, r.equation)
                /\ pc' = pc
           ELSE \* ValueError (not enough values to unpack), caught nowhere
                /\ pc' = "crashed"
                /\ UNCHANGED <<X, basic_variables, constraints>>
    /\ UNCHANGED <<input_file, lp_idx, output, problem,
                   c, simplex_tableau, solution, alternative_solution,
                   z, alternative_optima_exist, degenerate_solution,
                   unbounded_feasible_region, is_potentially_degenerate, idx,
                   non_basic_variables, pivot_col_idx, pivot_row_idx, zero_raised>>

\* LPP.parse_constraints, its second loop, and the rest of LPP.__init__
PadConstraints ==
    /\ pc = "parse"
    /\ Len(constraints) = Len(problem.constraints)
    /\ constraints' = [i \in 1..Len(constraints) |->
                          [A |-> ConstraintPad(constraints[i].A, X),
                           b |-> constraints[i].b]]
    /\ solution' = [v \in Range(X) |-> None]
    /\ alternative_solution' = [v \in Range(X) |-> None]
    /\ alternative_optima_exist' = FALSE
    /\ degenerate_solution' = FALSE
    /\ unbounded_feasible_region' = FALSE
    /\ pc' = "generate"
    /\ UNCHANGED <<input_file, lp_idx, output, problem,
                   X, c, basic_variables, simplex_tableau, z,
                   is_potentially_degenerate, idx, non_basic_variables,
                   pivot_col_idx, pivot_row_idx, zero_raised>>

\* LPP.generate_simplex_tableau, then the entry of LPP.solve
GenerateSimplexTableau ==
    /\ pc = "generate"
    /\ IF StackShapesAgree(c, constraints, X)
       THEN /\ simplex_tableau' = GenerateTableau(c, constraints, X)
            /\ pc' = "display"
       ELSE /\ simplex_tableau' = simplex_tableau
            /\ pc' = "crashed"
    /\ is_potentially_degenerate' = FALSE
    /\ idx' = 0
    /\ UNCHANGED <<input_file, lp_idx, output, problem,
                   X, c, basic_variables, constraints, solution,
                   alternative_solution, z, alternative_optima_exist,
                   degenerate_solution, unbounded_feasible_region,
                   non_basic_variables, pivot_col_idx, pivot_row_idx, zero_raised>>

\* self.simplex_tableau[i, -1]
Rhs(T, i) == T[i][Cardinality(DOMAIN T[i]) - 1]

\* the row of the first basic variable whose value is 0, or 0 when none is
FirstZeroRow(T, basic) ==
    LET zs == {i \in 1..Len(basic) : Rhs(T, i) = Zero}
    IN  IF zs = {} THEN 0 ELSE CHOOSE i \in zs : \A k \in zs : i <= k

\* LPP._display_intermediate_result: the solution after the read-back, which
\* stops at the first basic variable that is 0
ReadBack(sol, T, variables, basic) ==
    LET nb == NonBasic(variables, basic)
        fz == FirstZeroRow(T, basic)
        seen == IF fz = 0 THEN 1..Len(basic) ELSE 1..fz
    IN  [v \in DOMAIN sol |->
            IF \E i \in seen : basic[i] = v
            THEN LET i == CHOOSE i \in seen :
                              basic[i] = v /\ \A k \in seen : basic[k] = v => k <= i
                 IN  Rhs(T, i)
            ELSE IF v \in Range(nb) THEN Zero ELSE sol[v]]

\* Step 1 of LPP.solve: the read-back and the handler of ZeroBasicVariableError
DisplayIntermediateResult ==
    /\ pc = "display"
    /\ non_basic_variables' = NonBasic(X, basic_variables)
    /\ z' = simplex_tableau[0][LastCol]
    /\ solution' = ReadBack(solution, simplex_tableau, X, basic_variables)
    /\ LET raised == FirstZeroRow(simplex_tableau, basic_variables) # 0
       IN  /\ zero_raised' = Append(zero_raised, raised)
           /\ IF raised /\ is_potentially_degenerate
              THEN /\ degenerate_solution' = TRUE
                   /\ pc' = "done"
                   /\ UNCHANGED is_potentially_degenerate
              ELSE /\ is_potentially_degenerate' = (is_potentially_degenerate \/ raised)
                   /\ pc' = "entering"
                   /\ UNCHANGED degenerate_solution
    /\ UNCHANGED <<input_file, lp_idx, output, problem,
                   X, c, basic_variables, constraints, simplex_tableau,
                   alternative_solution, alternative_optima_exist,
                   unbounded_feasible_region, idx, pivot_col_idx, pivot_row_idx>>

\* Step 2 of LPP.solve: LPP._get_entering_variable and its handler
GetEnteringVariable ==
    /\ pc = "entering"
    /\ LET entering_variable_value == ExtremeValue(Lower(problem.problem_type))
           col == PivotColIdx(Lower(problem.problem_type))
       IN  IF col - 1 >= Len(X)
           THEN \* self.X[pivot_col_idx - 1] raises IndexError
                /\ pc' = "crashed"
                /\ UNCHANGED <<pivot_col_idx, alternative_optima_exist,
                               alternative_solution>>
           ELSE IF entering_variable_value = Zero
           THEN IF ~alternative_optima_exist /\ X[col] \in Range(non_basic_variables)
                THEN /\ alternative_optima_exist' = TRUE
                     /\ alternative_solution' = solution
                     /\ pivot_col_idx' = col
                     /\ pc' = "leaving"
                ELSE \* ZeroEnteringVariableError: break
                     /\ pc' = "done"
                     /\ UNCHANGED <<pivot_col_idx, alternative_optima_exist,
                                    alternative_solution>>
           ELSE /\ pivot_col_idx' = col
                /\ pc' = "leaving"
                /\ UNCHANGED <<alternative_optima_exist, alternative_solution>>
    /\ UNCHANGED <<input_file, lp_idx, output, problem,
                   X, c, basic_variables, constraints, simplex_tableau,
                   solution, z, degenerate_solution, unbounded_feasible_region,
                   is_potentially_degenerate, idx, non_basic_variables,
                   pivot_row_idx, zero_raised>>

\* Step 3 of LPP.solve: LPP._get_leaving_variable and its handler
GetLeavingVariable ==
    /\ pc = "leaving"
    /\ IF MinRatio(pivot_col_idx) = Inf
       THEN \* NoPositiveRatioError
            /\ unbounded_feasible_region' = TRUE
            /\ pc' = "done"
            /\ UNCHANGED pivot_row_idx
       ELSE /\ pivot_row_idx' = PivotRowIdx(pivot_col_idx)
            /\ pc' = "pivot"
            /\ UNCHANGED unbounded_feasible_region
    /\ UNCHANGED <<input_file, lp_idx, output, problem,
                   X, c, basic_variables, constraints, simplex_tableau,
                   solution, alternative_solution, z, alternative_optima_exist,
                   degenerate_solution, is_potentially_degenerate, idx,
                   non_basic_variables, pivot_col_idx, zero_raised>>

\* Steps 4 to 6 of LPP.solve: the pivot element, the basis, the tableau
Pivot ==
    /\ pc = "pivot"
    /\ idx < MaxIter
    /\ LET pivot_element == simplex_tableau[pivot_row_idx][pivot_col_idx]
       IN  /\ basic_variables' = [basic_variables EXCEPT ![pivot_row_idx] = X[pivot_col_idx]]
           /\ simplex_tableau' = UpdateTableauOf(simplex_tableau, pivot_row_idx,
                                                 pivot_col_idx, pivot_element)
    /\ idx' = idx + 1
    /\ pc' = "display"
    /\ UNCHANGED <<input_file, lp_idx, output, problem,
                   X, c, constraints, solution, alternative_solution, z,
                   alternative_optima_exist, degenerate_solution,
                   unbounded_feasible_region, is_potentially_degenerate,
                   non_basic_variables, pivot_col_idx, pivot_row_idx, zero_raised>>

\* "{:.2f}".format(value): the value in hundredths, rounded half to even
Format2(value) ==
    LET q == (100 * value[1]) \div value[2]
        r == (100 * value[1]) % value[2]
    IN  IF 2 * r < value[2] THEN q
        ELSE IF 2 * r > value[2] THEN q + 1
        ELSE IF q % 2 = 0 THEN q ELSE q + 1

\* the lines "var = value" printed for a solution dictionary
FormatSolution(sol) == [v \in DOMAIN sol |-> Format2(sol[v])]

\* "{:.2f}".format(None) raises TypeError
Formats(sol) == \A v \in DOMAIN sol : sol[v] # None

\* the messages of utils.display_result
AlternativeText == "The above LPP has Multiple Alternative Optimum Solutions."
UnboundedText == "The above Problem has Unbounded Feasible Region"
OptimizedText == "The above LPP is optimized at: "
NoText == ""

\* the report of a call that ended in an uncaught TypeError
TypeError == [lpp |-> <<>>, text |-> "TypeError", A |-> <<>>, B |-> <<>>, z |-> None]

\* utils.display_result: what is printed after print_lpp, or TypeError
display_result(lpp, alt_flag, deg_flag, unb_flag, sol, alt_sol, zval) ==
    IF alt_flag
    THEN IF Formats(alt_sol) /\ Formats(sol)
         THEN [lpp |-> lpp, text |-> AlternativeText,
               A |-> FormatSolution(alt_sol), B |-> FormatSolution(sol), z |-> zval]
         ELSE TypeError
    ELSE IF deg_flag
    THEN [lpp |-> lpp, text |-> NoText, A |-> <<>>, B |-> <<>>, z |-> None]
    ELSE IF unb_flag
    THEN [lpp |-> lpp, text |-> UnboundedText, A |-> <<>>, B |-> <<>>, z |-> None]
    ELSE IF Formats(sol)
         THEN [lpp |-> lpp, text |-> OptimizedText,
               A |-> <<>>, B |-> FormatSolution(sol), z |-> zval]
         ELSE TypeError

\* main.py: utils.display_result(lpp_obj) once solve has returned
DisplayResult ==
    /\ pc = "done"
    /\ LET report == display_result(problem, alternative_optima_exist,
                                    degenerate_solution, unbounded_feasible_region,
                                    solution, alternative_solution, z)
       IN  IF report.text = "TypeError"
           THEN /\ pc' = "crashed"
                /\ UNCHANGED output
           ELSE /\ pc' = "pause"
                /\ output' = Append(output, report)
    /\ UNCHANGED <<input_file, lp_idx, problem, X, c, basic_variables, constraints,
                   simplex_tableau, solution, alternative_solution, z,
                   alternative_optima_exist, degenerate_solution,
                   unbounded_feasible_region, is_potentially_degenerate, idx,
                   non_basic_variables, pivot_col_idx, pivot_row_idx, zero_raised>>

\* main.py: utils.pause() returns and the for loop takes the next LPP of
\* read_lp, for which LPP.__init__ starts afresh, or ends
NextProblem ==
    /\ pc = "pause"
    /\ IF lp_idx < Len(input_file)
       THEN /\ lp_idx' = lp_idx + 1
            /\ problem' = input_file[lp_idx + 1]
            /\ pc' = "parse"
            /\ c' = parse_equation(input_file[lp_idx + 1].obj_fn).c
            /\ X' = parse_equation(input_file[lp_idx + 1].obj_fn).X
            /\ basic_variables' = <<>>
            /\ constraints' = <<>>
            /\ simplex_tableau' = <<>>
            /\ solution' = <<>>
            /\ alternative_solution' = <<>>
            /\ z' = None
            /\ alternative_optima_exist' = FALSE
            /\ degenerate_solution' = FALSE
            /\ unbounded_feasible_region' = FALSE
            /\ is_potentially_degenerate' = FALSE
            /\ idx' = 0
            /\ non_basic_variables' = <<>>
            /\ pivot_col_idx' = 0
            /\ pivot_row_idx' = 0
            /\ zero_raised' = <<>>
       ELSE /\ pc' = "exit"
            /\ UNCHANGED <<lp_idx, problem, X, c, basic_variables, constraints,
                           simplex_tableau, solution, alternative_solution, z,
                           alternative_optima_exist, degenerate_solution,
                           unbounded_feasible_region, is_potentially_degenerate,
                           idx, non_basic_variables, pivot_col_idx, pivot_row_idx,
                           zero_raised>>
    /\ UNCHANGED <<input_file, output>>

Next ==
    \/ ParseConstraint
    \/ PadConstraints
    \/ GenerateSimplexTableau
    \/ DisplayIntermediateResult
    \/ GetEnteringVariable
    \/ GetLeavingVariable
    \/ Pivot
    \/ DisplayResult
    \/ NextProblem

Spec == Init /\ [][Next]_vars

\* one step of the loop of LPP.solve
SolveStep ==
    \/ DisplayIntermediateResult
    \/ GetEnteringVariable
    \/ GetLeavingVariable
    \/ Pivot

\* the input files of the runs followed to their end: the batches, the
\* scenarios, the long problem, the one-constraint problems with both
\* variables in the objective and the two-constraint problems that maximize
\* x1 + x2
LiveInputFiles ==
    Batches
    \cup {<<p>> : p \in Scenarios \cup {LongProblem}}
    \cup {<<p>> : p \in {q \in OneConstraintProblems : Len(q.obj_fn) = 2}}
    \cup {<<p>> : p \in {q \in TwoConstraintProblems : q.obj_fn = Expr(1, x1, 1, x2)}}

LiveInit == Init /\ input_file \in LiveInputFiles

\* the interpreter runs the next statement of solve as long as there is one
LiveSpec == LiveInit /\ [][Next]_vars /\ WF_vars(SolveStep)


----------------------------------------------------------------------------
(* Properties *)

Done == pc = "done"
Maximizing == Lower(problem.problem_type) = "maximize"
NoFlagSet ==
    ~alternative_optima_exist /\ ~degenerate_solution /\ ~unbounded_feasible_region

\* C1: for Maximize z = 5x1+4x2 under 6x1+4x2<=24 and x1+2x2<=6 the run does
\* not crash and ends as a plain optimum (no flag set) with x1 = 3, x2 = 3/2
\* and z = 21.
C1_Scenario1Optimum ==
    problem = Scenario1 =>
        /\ pc # "crashed"
        /\ Done => /\ NoFlagSet
                   /\ solution[x1] = Rat(3)
                   /\ solution[x2] = <<3, 2>>
                   /\ z = Rat(21)

C1_Witness == problem = Scenario1 /\ Done /\ idx = 2

\* C2: for Maximize z = 3x1+2x2 under x1<=4 and x1+3x2<=6 the run ends with
\* unbounded_feasible_region false and the exact optimum x1 = 4, x2 = 2/3,
\* z = 40/3.
C2_Scenario2Optimum ==
    problem = Scenario2 =>
        /\ pc # "crashed"
        /\ Done => /\ ~unbounded_feasible_region
                   /\ solution[x1] = Rat(4)
                   /\ solution[x2] = <<2, 3>>
                   /\ z = <<40, 3>>

C2_Witness == problem = Scenario2 /\ Done /\ solution[x2] = <<2, 3>>

\* C3: for Maximize z = x1 under x1 - x2 <= 1 the run ends Unbounded, at the
\* first ratio test (no pivot was made).
C3_Scenario3Unbounded ==
    (problem = Scenario3 /\ Done) => (unbounded_feasible_region /\ idx = 0)

\* the z-row has no improving column: its extreme value is 0
NoImprovingColumn == ExtremeValue(Lower(problem.problem_type)) = Zero

\* some non-basic variable has the value 0 in the z-row
SomeNonBasicZeroCost ==
    \E j \in 1..Len(X) :
        X[j] \notin Range(basic_variables) /\ simplex_tableau[0][j] = Zero

RECURSIVE ObjectiveSum(_, _)
ObjectiveSum(sol, n) ==
    IF n = 0 THEN Zero
    ELSE RAdd(ObjectiveSum(sol, n - 1), RMul(Rat(c[n]), sol[X[n]]))

\* the objective function at a solution, or None when a value is not set
ObjectiveAt(sol) ==
    IF \E i \in 1..Len(c) : sol[X[i]] = None THEN None ELSE ObjectiveSum(sol, Len(c))

\* C4: whenever solve ends on a tableau with no improving column in which a
\* non-basic variable has z-row value 0, alternative_optima_exist is set and
\* alternative_solution and solution are two distinct points with the same
\* objective value.
C4_AlternateOptimaReported ==
    (Done /\ NoImprovingColumn /\ SomeNonBasicZeroCost) =>
        /\ alternative_optima_exist
        /\ alternative_solution # solution
        /\ ObjectiveAt(alternative_solution) # None
        /\ ObjectiveAt(alternative_solution) = ObjectiveAt(solution)

\* C5: at every exit of the solve loop at most one of degenerate_solution,
\* unbounded_feasible_region and alternative_optima_exist is true.
C5_ExclusiveClassification ==
    Done => /\ ~(degenerate_solution /\ unbounded_feasible_region)
            /\ ~(degenerate_solution /\ alternative_optima_exist)
            /\ ~(unbounded_feasible_region /\ alternative_optima_exist)

\* C6: solve ends Degenerate only when the read-backs of the last two
\* iterations both met a basic variable that is 0.
C6_DegenerateOnlyAfterTwoConsecutive ==
    (Done /\ degenerate_solution) =>
        /\ Len(zero_raised) >= 2
        /\ zero_raised[Len(zero_raised)]
        /\ zero_raised[Len(zero_raised) - 1]

ObjectiveValue == simplex_tableau[0][LastCol]
NonDegenerateRun == \A k \in 1..Len(zero_raised) : ~zero_raised[k]

\* C7: in a run where no basic variable was 0, a pivot never decreases the
\* objective value tableau[0][last] of a maximize problem and never increases
\* that of a minimize problem.
C7_ObjectiveMonotone ==
    [][(pc = "pivot" /\ NonDegenerateRun) =>
          IF Maximizing THEN RLeq(ObjectiveValue, ObjectiveValue')
                        ELSE RLeq(ObjectiveValue', ObjectiveValue)]_vars

C7_Witness ==
    /\ ~Maximizing /\ Done /\ idx >= 2 /\ NonDegenerateRun
    /\ RLess(ObjectiveValue, Zero)

\* column col of the tableau is the unit vector with its 1 in row row
UnitColumn(col, row) ==
    \A i \in Rows : simplex_tableau[i][col] = IF i = row THEN One ELSE Zero

\* C8: after every pivot the column of the entering variable is a unit vector,
\* 1 in the pivot row and 0 in every other row and in the z-row, and the
\* entering variable is the basic variable of the pivot row.
C8_EnteringColumnUnit ==
    (pc = "display" /\ idx > 0) =>
        /\ UnitColumn(pivot_col_idx, pivot_row_idx)
        /\ basic_variables[pivot_row_idx] = X[pivot_col_idx]

C8_Witness ==
    pc = "display" /\ idx = 2 /\ Len(basic_variables) = 2 /\ pivot_row_idx = 2

\* the coefficient of the variable created for constraint i, before and
\* after Constraint.pad has put the z column in front
SlackCoefficient(i) ==
    IF pc = "parse" THEN constraints[i].A[Len(c) + i]
                    ELSE constraints[i].A[Len(c) + i + 1]

\* C9 as stated: "<=" gives coefficient +1 on the slack variable; ">=" with
\* a negative RHS gives coefficient -1 on the surplus variable and RHS >= 0.
C9_SlackPlusSurplusMinus ==
    \A i \in 1..Len(constraints) :
        LET con == problem.constraints[i]
        IN  /\ con.sign_type = "<=" => SlackCoefficient(i) = 1
            /\ (con.sign_type = ">=" /\ con.rhs < 0) =>
                   (SlackCoefficient(i) = -1 /\ constraints[i].b >= 0)

\* C9 as amended: "<=" gives coefficient +1 on the slack variable; ">=" with
\* a negative RHS gives, after the multiplication by -1, coefficient +1 on
\* the surplus variable and RHS >= 0.
C9_SlackPlusSurplusFlipped ==
    \A i \in 1..Len(constraints) :
        LET con == problem.constraints[i]
        IN  /\ con.sign_type = "<=" => SlackCoefficient(i) = 1
            /\ (con.sign_type = ">=" /\ con.rhs < 0) =>
                   (SlackCoefficient(i) = 1 /\ constraints[i].b >= 0)

C9_Witness ==
    /\ pc = "generate"
    /\ problem.constraints[1].sign_type = ">="
    /\ problem.constraints[1].rhs < 0
    /\ Len(problem.constraints[1].lhs) = 2
    /\ constraints[1].b > 0

\* the coefficient a variable has in a text, 0 when the text does not name it
TextCoefficient(lhs, var) ==
    IF \E k \in 1..Len(lhs) : lhs[k].var = var
    THEN Coefficient(lhs[CHOOSE k \in 1..Len(lhs) : lhs[k].var = var])
    ELSE 0

\* C10: in every constraint the coefficient at the position of a variable of
\* the objective is the coefficient the constraint's text gives that variable,
\* whatever the order of the terms, and 0 when the text does not name it.
C10_CoefficientsFollowX ==
    \A i \in 1..Len(constraints) : \A j \in 1..Len(c) :
        constraints[i].A[IF pc = "parse" THEN j ELSE j + 1]
            = TextCoefficient(problem.constraints[i].lhs, X[j])

\* the constraints have been through both loops of parse_constraints
Padded == pc # "parse"

WellFormed(lp) ==
    \A i \in 1..Len(lp.constraints) : SplitUnpacks(lp.constraints[i])

\* the process has ended: the for loop of main.py is over, or an exception
\* that nothing catches has ended it
Ended == pc \in {"exit", "crashed"}

\* C12: when the process has ended, every well-formed LPP of the input file
\* has been reported, in the order of the file, whatever malformed LPPs stand
\* before it.
C12_BatchContinuesAfterMalformed ==
    Ended =>
        [k \in 1..Len(output) |-> output[k].lpp] = SelectSeq(input_file, WellFormed)

\* utils.display_result has just printed the report of the LPP in work
Reported == pc = "pause"
LastReport == output[Len(output)]

\* the texts by which display_result names a classification
ClassificationTexts == {AlternativeText, UnboundedText, OptimizedText}

\* C13: the report of an LPP that solve left Optimal, Unbounded, Degenerate
\* or with AlternateOptima names that classification, by a text the reports
\* of the other three classifications do not carry.
C13_ReportNamesClassification ==
    Reported =>
        /\ NoFlagSet => LastReport.text = OptimizedText
        /\ (unbounded_feasible_region /\ ~alternative_optima_exist /\ ~degenerate_solution)
               => LastReport.text = UnboundedText
        /\ (alternative_optima_exist /\ ~unbounded_feasible_region /\ ~degenerate_solution)
               => LastReport.text = AlternativeText
        /\ (degenerate_solution /\ ~alternative_optima_exist /\ ~unbounded_feasible_region)
               => (LastReport.text # NoText /\ LastReport.text \notin ClassificationTexts)

\* solve works on a tableau: from generate_simplex_tableau to the loop's exit
InSolve == pc \in {"display", "entering", "leaving", "pivot", "done"}

\* the tableau column of a variable: its first position in X
ColumnOf(var) ==
    CHOOSE j \in 1..Len(X) : X[j] = var /\ \A k \in 1..Len(X) : X[k] = var => j <= k

\* C14: from the initial tableau to the exit of the loop, the column of
\* basic_variables[i] (0-based i) is the unit vector with its 1 in row i + 1,
\* for "<=", ">=" and "=" constraints alike.
C14_BasisColumnsUnit ==
    InSolve =>
        \A i \in 1..Len(basic_variables) :
            UnitColumn(ColumnOf(basic_variables[i]), i)

\* C15: the pivot element of every pivot of solve is strictly positive.
C15_PivotElementPositive ==
    pc = "pivot" => RLess(Zero, simplex_tableau[pivot_row_idx][pivot_col_idx])

\* the relations for which a slack or surplus variable is to be created
Injects(con) ==
    con.sign_type = "<=" \/ (con.sign_type = ">=" /\ con.rhs < 0)

\* the constraints parsed so far that are to get a variable
Injected == {i \in 1..Len(constraints) : Injects(problem.constraints[i])}

\* C16: Constraint.parse adds a variable to X and to the basis only for a
\* "<=" constraint or a ">=" constraint with negative RHS: X and the basis
\* have grown by one name per such constraint and by nothing else.
C16_VariableOnlyWhenInjected ==
    pc # "crashed" =>
        /\ Len(basic_variables) = Cardinality(Injected)
        /\ Len(X) = Len(c) + Cardinality(Injected)

\* C17: the step that detects alternate optima snapshots the solution read
\* back in that iteration; from then on solve makes exactly one more pivot
\* (the ratio test finds a row, the read-back after the pivot does not end
\* the loop) and the next selection of an entering variable ends the loop,
\* with the snapshot untouched.
C17_OneMorePivotAfterDetection ==
    [][/\ (pc = "entering" /\ ~alternative_optima_exist /\ alternative_optima_exist')
           => (alternative_solution' = solution /\ pc' = "leaving")
       /\ (InSolve /\ pc # "done" /\ alternative_optima_exist)
           => /\ alternative_solution' = alternative_solution
              /\ pc = "leaving" => pc' = "pivot"
              /\ pc = "pivot" => pc' = "display"
              /\ pc = "display" => pc' = "entering"
              /\ pc = "entering" => pc' = "done"]_vars

\* C18: once all constraints are parsed, no name stands twice in X.
C18_VariableNamesUnique ==
    Padded => \A i \in 1..Len(X) : \A j \in 1..Len(X) : i # j => X[i] # X[j]

\* every constraint row of the initial tableau has RHS >= 0
InitiallyFeasible == \A i \in 1..Len(constraints) : constraints[i].b >= 0

\* C19: when every constraint row of the initial tableau has RHS >= 0, every
\* constraint row has RHS >= 0 after every pivot of solve.
C19_FeasibilityPreserved ==
    (InSolve /\ InitiallyFeasible) =>
        \A i \in ConstraintRows : RLeq(Zero, Rhs(simplex_tableau, i))

\* C20: at every exit of the solve loop each basic variable has in solution
\* the RHS of its row, each non-basic variable has 0 and z is the RHS of the
\* z-row, also when a read-back met a basic variable that is 0.
C20_SolutionAgreesWithTableau ==
    Done =>
        /\ \A i \in 1..Len(basic_variables) :
               solution[basic_variables[i]] = Rhs(simplex_tableau, i)
        /\ \A j \in 1..Len(X) :
               X[j] \notin Range(basic_variables) => solution[X[j]] = Zero
        /\ z = Rhs(simplex_tableau, 0)

\* solve has entered its loop and not left it
InLoop == pc \in {"display", "entering", "leaving", "pivot"}

\* C21: for every well-formed LPP the loop of solve, once entered, reaches
\* its exit (Optimal, Unbounded, Degenerate or the stop after the pivot of
\* the alternate optima): no run pivots forever.
C21_SolveTerminates == InLoop ~> Done

C21_Witness == Done /\ idx >= 3 /\ WellFormed(problem)


====
